---- MODULE Spec2Model ----
(***************************************************************************)
(* Discrete-time identification of Burgers' equation with a physics        *)
(* informed network: 1d-burgers/ide_disc_burgers.py.                       *)
(*                                                                         *)
(* Tensors are modelled twice: by their shapes (every operation of the     *)
(* stage predictors, with TensorFlow's broadcasting and matmul rules), and *)
(* by values (integer matrices for the stage predictors; one               *)
(* representative scalar per tensor in the training loop).                 *)
(***************************************************************************)
EXTENDS Integers, Sequences, FiniteSets, TLC

\* ------------------------------------------------------------------ bounds
MaxEpochs == 2
MaxQ == 2
MaxFits == 2
\* exp is resolved on the integers >= -ExpFloor and underflows to 0 below
ExpFloor == 8

\* ------------------------------------------------------- program constants
Lambda1Init == 0
Lambda2Init == -6
InputWidth == 1
N_0 == 199
N_1 == 201
HiddenWidth == 50

\* a non-finite float32 (NaN/Inf); every arithmetic result that reads one is one
NaN == -1000000

Max(a, b) == IF a >= b THEN a ELSE b
Min(a, b) == IF a <= b THEN a ELSE b
Sgn(g) == IF g > 0 THEN 1 ELSE IF g < 0 THEN -1 ELSE 0
Last(s) == s[Len(s)]

RECURSIVE SeqSum(_)
SeqSum(s) == IF Len(s) = 0 THEN 0 ELSE s[1] + SeqSum(Tail(s))

RECURSIVE Pow2(_)
Pow2(n) == IF n <= 0 THEN 1 ELSE 2 * Pow2(n - 1)

\* tf.exp on the model's integer grid: positive, increasing, 0 on underflow
Exp(l) == IF l < -ExpFloor THEN 0 ELSE Pow2(l + ExpFloor)

\* ------------------------------------------------------- integer matrices
Rows(A) == Len(A)
Cols(A) == Len(A[1])
Transpose(A) == [j \in 1..Cols(A) |-> [i \in 1..Rows(A) |-> A[i][j]]]
Matmul(A, B) ==
  [i \in 1..Rows(A) |-> [j \in 1..Cols(B) |->
     SeqSum([k \in 1..Cols(A) |-> A[i][k] * B[k][j]])]]
Scale(c, A) == [i \in 1..Rows(A) |-> [j \in 1..Cols(A) |-> c * A[i][j]]]
\* elementwise operators broadcast a dimension of size 1
At(A, i, j) == A[IF Rows(A) = 1 THEN 1 ELSE i][IF Cols(A) = 1 THEN 1 ELSE j]
MAdd(A, B) ==
  [i \in 1..Max(Rows(A), Rows(B)) |-> [j \in 1..Max(Cols(A), Cols(B)) |->
     At(A, i, j) + At(B, i, j)]]
MSub(A, B) ==
  [i \in 1..Max(Rows(A), Rows(B)) |-> [j \in 1..Max(Cols(A), Cols(B)) |->
     At(A, i, j) - At(B, i, j)]]
MMul(A, B) ==
  [i \in 1..Max(Rows(A), Rows(B)) |-> [j \in 1..Max(Cols(A), Cols(B)) |->
     At(A, i, j) * At(B, i, j)]]

\* ------------------------------------------------------- stage predictors
\* N = l1*U*U_x - l2*U_xx
ResidualN0(U, U_x, U_xx, l1, l2) ==
  MSub(MMul(Scale(l1, U), U_x), Scale(l2, U_xx))
\* (variant: the diffusion term keeps the sign it has in slice 0)
ResidualN1WrongSign(U, U_x, U_xx, l1, l2) ==
  MAdd(MMul(Scale(-l1, U), U_x), Scale(-l2, U_xx))
\* N = -l1*U*U_x + l2*U_xx
ResidualN1(U, U_x, U_xx, l1, l2) ==
  MAdd(MMul(Scale(-l1, U), U_x), Scale(l2, U_xx))
\* return U + self.dt*tf.matmul(N, self.IRK_alpha.T)
U_0_model(U, U_x, U_xx, lambda1, lambda2, dt, alpha) ==
  LET l1 == lambda1
      l2 == Exp(lambda2)
      N == ResidualN0(U, U_x, U_xx, l1, l2)
  IN MAdd(U, Scale(dt, Matmul(N, Transpose(alpha))))
\* return U + self.dt*tf.matmul(N, (self.IRK_beta - self.IRK_alpha).T)
U_1_model(U, U_x, U_xx, lambda1, lambda2, dt, alpha, beta) ==
  LET l1 == lambda1
      l2 == Exp(lambda2)
      N == ResidualN1(U, U_x, U_xx, l1, l2)
  IN MAdd(U, Scale(dt, Matmul(N, Transpose(MSub(beta, alpha)))))

\* ----------------------------------------------------------- tensor shapes
\* a shape is <<rows, cols>>; an operation that rejects its operands yields
\* ShapeMismatch (TensorFlow's InvalidArgumentError)
ShapeMismatch == <<>>
NoTensor == <<0, 0>>

BroadcastShape(a, b) ==
  IF a = ShapeMismatch \/ b = ShapeMismatch THEN ShapeMismatch
  ELSE IF \A i \in 1..2 : a[i] = b[i] \/ a[i] = 1 \/ b[i] = 1
       THEN <<Max(a[1], b[1]), Max(a[2], b[2])>>
       ELSE ShapeMismatch
MatmulShape(a, b) ==
  IF a = ShapeMismatch \/ b = ShapeMismatch THEN ShapeMismatch
  ELSE IF a[2] = b[1] THEN <<a[1], b[2]>> ELSE ShapeMismatch
TransposeShape(a) == <<a[2], a[1]>>

\* (variant: an output layer of q+1 units)
ModuleLayersQPlus1(qIn) ==
  <<InputWidth, HiddenWidth, HiddenWidth, HiddenWidth, qIn + 1>>
\* layers[-1] = q, on layers = [1, 50, 50, 50, 0]
ModuleLayers(qIn) ==
  <<InputWidth, HiddenWidth, HiddenWidth, HiddenWidth, qIn>>
\* self.q = max(q,1)
SelfQ(qIn) == Max(qIn, 1)

\* InputLayer(input_shape=(layers[0],)), then one Dense per width in layers[1:]
U_modelShape(L, x) ==
  IF x[2] = L[1] THEN <<x[1], Last(L)>> ELSE ShapeMismatch

\* __autograd takes the seed as given: the possible shapes of U_x and U_xx.
\* With a seed of U's shape they have U's shape.  With any other seed the
\* gradient kernels either reject the operands or, when the two shapes
\* broadcast (a dimension of size 1), go through with the broadcast shape.
AutogradShapes(U, dummy) ==
  IF U = ShapeMismatch THEN {ShapeMismatch}
  ELSE IF dummy = U THEN {U}
  ELSE IF BroadcastShape(U, dummy) # ShapeMismatch
       THEN {ShapeMismatch, BroadcastShape(U, dummy)}
       ELSE {ShapeMismatch}

\* U + dt*matmul(l1*U*U_x -/+ l2*U_xx, T), D the shape of U_x and U_xx
StageShape(U, D, T) ==
  LET N == BroadcastShape(BroadcastShape(U, D), D)
  IN BroadcastShape(U, MatmulShape(N, T))
U_0_modelShapes(L, x, dummy, alpha) ==
  LET U == U_modelShape(L, x)
  IN {StageShape(U, D, TransposeShape(alpha)) : D \in AutogradShapes(U, dummy)}
U_1_modelShapes(L, x, dummy, alpha, beta) ==
  LET U == U_modelShape(L, x)
      BA == BroadcastShape(beta, alpha)
  IN {IF BA = ShapeMismatch THEN ShapeMismatch
      ELSE StageShape(U, D, TransposeShape(BA)) : D \in AutogradShapes(U, dummy)}

\* ------------------------------------------------------ trainable variables
Lambda1Name == <<"lambda", 1>>
Lambda2Name == <<"lambda", 2>>
\* kernel and bias of each Dense layer, in layer order
TrainableVariables(L) ==
  [i \in 1..(2 * (Len(L) - 1)) |->
     IF i % 2 = 1 THEN <<"kernel", (i + 1) \div 2>> ELSE <<"bias", i \div 2>>]
SeqRange(s) == {s[i] : i \in 1..Len(s)}
NoDuplicates(s) == \A i, j \in 1..Len(s) : s[i] = s[j] => i = j

\* __wrap_training_variables: var = self.U_model.trainable_variables;
\* var.extend([self.lambda_1, self.lambda_2]); return var
WrapTrainingVariables(m) == m.vars \o <<Lambda1Name, Lambda2Name>>
\* (variant: the property hands out the model's own list)
WrapAliasesModel(m) == [m EXCEPT !.vars = @ \o <<Lambda1Name, Lambda2Name>>]
\* the model after the call: the property handed out a new list, so the
\* extend did not reach the model's own
WrapLeavesModel(m) == m

\* -------------------------------------------- loss, gradient and optimizer
\* One representative entry per tensor: U is the sum of the weights, U_x and
\* U_xx are 1, alpha is 1 and beta is 2; the loss and its exact derivatives
\* are those of the stage predictors on these entries.
NetValue(m) ==
  LET tv == TrainableVariables(m.layers)
  IN SeqSum([i \in DOMAIN tv |-> m.w[tv[i]]])
AnyNaN(m, l1, l2, u0, u1) ==
  \/ \E v \in DOMAIN m.w : m.w[v] = NaN
  \/ NaN \in {l1, l2, u0, u1}
\* u_0_pred - u_0, with N = l1*U*U_x - l2*U_xx and U + dt*N*alpha
Residual0(U, l1, l2, u0, dt) == U + dt * ((l1 * U * 1 - Exp(l2) * 1) * 1) - u0
\* u_1_pred - u_1, with N = -l1*U*U_x + l2*U_xx and U + dt*N*(beta - alpha)
Residual1(U, l1, l2, u1, dt) == U + dt * ((-l1 * U * 1 + Exp(l2) * 1) * (2 - 1)) - u1
\* tf.reduce_sum(tf.square(u_0_pred - u_0)) + tf.reduce_sum(tf.square(u_1_pred - u_1))
LossValue(m, l1, l2, u0, u1, dt) ==
  IF AnyNaN(m, l1, l2, u0, u1) THEN NaN
  ELSE LET U == NetValue(m)
           r0 == Residual0(U, l1, l2, u0, dt)
           r1 == Residual1(U, l1, l2, u1, dt)
       IN r0 * r0 + r1 * r1
\* the derivative of the loss by the variable `name`
GradientOf(name, U, r0, r1, l1, l2, dt) ==
  IF name = Lambda1Name THEN 2 * r0 * dt * U - 2 * r1 * dt * U
  ELSE IF name = Lambda2Name THEN 2 * r1 * dt * Exp(l2) - 2 * r0 * dt * Exp(l2)
  ELSE 2 * r0 * (1 + dt * l1) + 2 * r1 * (1 - dt * l1)
\* tape.gradient(loss_value, variables): one gradient per listed variable
Gradient(variables, m, l1, l2, u0, u1, dt) ==
  IF AnyNaN(m, l1, l2, u0, u1)
  THEN [i \in 1..Len(variables) |-> [var |-> variables[i], g |-> NaN]]
  ELSE LET U == NetValue(m)
           r0 == Residual0(U, l1, l2, u0, dt)
           r1 == Residual1(U, l1, l2, u1, dt)
       IN [i \in 1..Len(variables) |->
             [var |-> variables[i],
              g |-> GradientOf(variables[i], U, r0, r1, l1, l2, dt)]]

\* Adam's update of one variable: a step against the gradient's sign; a
\* non-finite gradient or variable gives a non-finite variable
AdamStep(v, g) == IF v = NaN \/ g = NaN THEN NaN ELSE v - Sgn(g)
\* optimizer.apply_gradients(zip(grads, variables)): pair i is the i-th
\* gradient with the i-th variable, up to the shorter of the two
RECURSIVE ApplyPairs(_, _, _, _)
ApplyPairs(vals, gs, variables, i) ==
  IF i > Min(Len(gs), Len(variables)) THEN vals
  ELSE ApplyPairs([vals EXCEPT ![variables[i]] = AdamStep(@, gs[i].g)],
                  gs, variables, i + 1)
AllValues(m, l1, l2) ==
  [n \in DOMAIN m.w \cup {Lambda1Name, Lambda2Name} |->
     IF n = Lambda1Name THEN l1 ELSE IF n = Lambda2Name THEN l2 ELSE m.w[n]]

\* get_params: l1 = self.lambda_1; l2 = tf.exp(self.lambda_2)
GetParams(l1, l2) == <<l1, IF l2 = NaN THEN NaN ELSE Exp(l2)>>

\* ------------------------------------------------------------ the fit loop
\* (variant: the report is made before the update)
EpochOrderLogFirst == <<"grad", "log", "apply">>
\* the statements of the loop body, in order
EpochOrder == <<"grad", "apply", "log">>
\* (variant: one epoch too many)
LoopContinuesOneMore(e, E) == e <= E
\* for epoch in range(epochs)
LoopContinues(e, E) == e < E
\* (variant: reports at the end of every K-th epoch)
ShouldLogShifted(e, K) == (e + 1) % K = 0
\* if epoch % log_epochs == 0
ShouldLog(e, K) == e % K = 0
\* (variant: a variable that exists is kept)
KeepVariable(cur, id, init) == IF cur.id = 0 THEN [id |-> id, val |-> init] ELSE cur
\* self.lambda_1 = tf.Variable([0.0]); self.lambda_2 = tf.Variable([-6.0])
\* (id is the identity of the Variable object, 0 while the attribute is unset)
NewVariable(cur, id, init) == [id |-> id, val |-> init]
Unset == [id |-> 0, val |-> 0]

\* -------------------------------------------------------------------- state
VARIABLES
  pc,          \* "Ready", "for", "grad", "apply", "log", "end", "Stopped", "Failed"
  error,       \* the exception that ended the run, or "none"
  q,           \* self.q
  IRK,         \* shapes of IRK_alpha and IRK_beta
  dt,          \* self.dt
  U_model,     \* layers, the model's own list of variables, their values
  optimizer,   \* Adam: iterations and the variables it holds slots for
  x_0, u_0, x_1, u_1,      \* shapes of x_*, representative values of u_*
  lambda_1, lambda_2,
  dummy_x_0, dummy_x_1,    \* shapes of the seeds
  epochs, log_epochs, epoch,
  loss_value, grads,
  logger,      \* what the logger was given during the current fit call
  predictOut,  \* the last predict call: x_star's rows and what came back
  fitCount,    \* number of fit calls so far
  trace,       \* history: per gradient computation of the current fit
  snap,        \* history: weights, optimizer and lambdas when fit was called
  stage        \* the stage-predictor specification's inputs and outputs

trainVars == <<pc, error, q, IRK, dt, U_model, optimizer, x_0, u_0, x_1, u_1,
               lambda_1, lambda_2, dummy_x_0, dummy_x_1, epochs, log_epochs,
               epoch, loss_value, grads, logger, predictOut, fitCount, trace,
               snap>>
vars == <<trainVars, stage>>

\* kernel_initializer='glorot_normal' (representative draws), zero biases
InitSeeds == {0, 1}
InitialWeights(L, seed) ==
  [v \in SeqRange(TrainableVariables(L)) |-> IF v[1] = "kernel" THEN seed ELSE 0]
\* what fit is handed: the rows of x_0 and of x_1, and (u_0, u_1).  The
\* module's data set (N_0 and N_1 points), the same with a NaN among the
\* observations, and one with a single point at the first time slice
Datasets == {[n0 |-> N_0, n1 |-> N_1, u0 |-> 1, u1 |-> 2],
             [n0 |-> N_0, n1 |-> N_1, u0 |-> 3, u1 |-> NaN],
             [n0 |-> 1, n1 |-> N_0, u0 |-> 2, u1 |-> 1]}
\* the log_epochs handed to fit
LogIntervals == {0, 1, 2}
\* the rows of an x_star handed to predict
StarSizes == {1, N_0, N_1, N_0 + N_1}

NoPredict == [x_star |-> 0, U_0_star |-> NoTensor, U_1_star |-> NoTensor,
              raised |-> FALSE]
Params == [w |-> U_model.w, l1 |-> lambda_1.val, l2 |-> lambda_2.val]
OptimizerKeys(variables) ==
  {IF n = Lambda1Name THEN <<"lambda_1", lambda_1.id>>
   ELSE IF n = Lambda2Name THEN <<"lambda_2", lambda_2.id>>
   ELSE n : n \in SeqRange(variables)}

StageIdle == [pc |-> "off"]

InitTrain ==
  /\ pc = "Ready" /\ error = "none"
  /\ \E qIn \in 1..MaxQ :
       /\ q = SelfQ(qIn)
       /\ \E seed \in InitSeeds :
            U_model = [layers |-> ModuleLayers(qIn),
                       vars |-> TrainableVariables(ModuleLayers(qIn)),
                       w |-> InitialWeights(ModuleLayers(qIn), seed)]
       /\ \E bRows \in {1, qIn} :
            IRK = [alpha |-> <<qIn, qIn>>, beta |-> <<bRows, qIn>>]
  /\ dt = 1
  /\ optimizer = [iterations |-> 0, slots |-> {}]
  /\ x_0 = NoTensor /\ x_1 = NoTensor /\ u_0 = 0 /\ u_1 = 0
  /\ lambda_1 = Unset /\ lambda_2 = Unset
  /\ dummy_x_0 = NoTensor /\ dummy_x_1 = NoTensor
  /\ epochs = 0 /\ log_epochs = 0 /\ epoch = 0
  /\ loss_value = 0 /\ grads = <<>>
  /\ logger = <<>> /\ predictOut = NoPredict /\ fitCount = 0
  /\ trace = <<>>
  /\ snap = [w |-> U_model.w, optimizer |-> optimizer,
             lambda_1 |-> Unset, lambda_2 |-> Unset]

Init == InitTrain /\ stage = StageIdle

\* the statement after `step` of the loop body, "for" after the last one
Position(step) == CHOOSE i \in 1..Len(EpochOrder) : EpochOrder[i] = step
After(step) ==
  IF Position(step) < Len(EpochOrder) THEN EpochOrder[Position(step) + 1] ELSE "for"
EpochAfter(step) == IF After(step) = "for" THEN epoch + 1 ELSE epoch

Raise(e) ==
  /\ pc' = "Failed"
  /\ error' = e

\* fit, up to the loop: lines 134-147
FitStart ==
  /\ pc \in {"Ready", "Stopped"}
  /\ fitCount < MaxFits
  /\ \E d \in Datasets, E \in 0..MaxEpochs, K \in LogIntervals :
       /\ x_0' = <<d.n0, InputWidth>> /\ u_0' = d.u0
       /\ x_1' = <<d.n1, InputWidth>> /\ u_1' = d.u1
       /\ dummy_x_0' = <<d.n0, q>> /\ dummy_x_1' = <<d.n1, q>>
       /\ epochs' = E /\ log_epochs' = K
  /\ lambda_1' = NewVariable(lambda_1, 2 * fitCount + 1, Lambda1Init)
  /\ lambda_2' = NewVariable(lambda_2, 2 * fitCount + 2, Lambda2Init)
  /\ fitCount' = fitCount + 1
  /\ logger' = <<[kind |-> "train_start", epoch |-> 0, loss |-> 0, l1 |-> 0, l2 |-> 0]>>
  /\ trace' = <<>>
  /\ snap' = [w |-> U_model.w, optimizer |-> optimizer,
              lambda_1 |-> lambda_1, lambda_2 |-> lambda_2]
  /\ epoch' = 0 /\ pc' = "for"
  /\ predictOut' = NoPredict
  /\ UNCHANGED <<error, q, IRK, dt, U_model, optimizer, loss_value, grads, stage>>

\* for epoch in range(epochs)
ForEpoch ==
  /\ pc = "for"
  /\ pc' = IF LoopContinues(epoch, epochs) THEN EpochOrder[1] ELSE "end"
  /\ UNCHANGED <<error, q, IRK, dt, U_model, optimizer, x_0, u_0, x_1, u_1,
                 lambda_1, lambda_2, dummy_x_0, dummy_x_1, epochs, log_epochs,
                 epoch, loss_value, grads, logger, predictOut, fitCount, trace,
                 snap, stage>>

\* the shapes __loss can end with: both stage predictions against u_0, u_1
LossShapes ==
  {IF p0 = ShapeMismatch \/ p1 = ShapeMismatch THEN ShapeMismatch
   ELSE IF BroadcastShape(p0, <<x_0[1], q>>) = ShapeMismatch
           \/ BroadcastShape(p1, <<x_1[1], q>>) = ShapeMismatch
        THEN ShapeMismatch ELSE <<1, 1>> :
   p0 \in U_0_modelShapes(U_model.layers, x_0, dummy_x_0, IRK.alpha),
   p1 \in U_1_modelShapes(U_model.layers, x_1, dummy_x_1, IRK.alpha, IRK.beta)}

\* loss_value, grads = self.__grad(self.x_0, self.u_0, self.x_1, self.u_1)
Grad ==
  /\ pc = "grad"
  /\ \E s \in LossShapes :
       IF s = ShapeMismatch
       THEN /\ Raise("ShapeMismatch")
            /\ UNCHANGED <<U_model, loss_value, grads, trace, epoch>>
       ELSE /\ loss_value' = LossValue(U_model, lambda_1.val, lambda_2.val, u_0, u_1, dt)
            /\ grads' = Gradient(WrapTrainingVariables(U_model), U_model,
                                 lambda_1.val, lambda_2.val, u_0, u_1, dt)
            /\ U_model' = WrapLeavesModel(U_model)
            /\ trace' = Append(trace, [epoch |-> epoch, loss |-> loss_value',
                                       before |-> Params, after |-> Params,
                                       updates |-> 0,
                                       wrt |-> WrapTrainingVariables(U_model),
                                       onto |-> <<>>])
            /\ pc' = After("grad") /\ epoch' = EpochAfter("grad")
            /\ UNCHANGED error
  /\ UNCHANGED <<q, IRK, dt, optimizer, x_0, u_0, x_1, u_1, lambda_1, lambda_2,
                 dummy_x_0, dummy_x_1, epochs, log_epochs, logger, predictOut,
                 fitCount, snap, stage>>

\* self.optimizer.apply_gradients(zip(grads, self.__wrap_training_variables()))
ApplyGradients ==
  /\ pc = "apply"
  /\ LET variables == WrapTrainingVariables(U_model)
         new == ApplyPairs(AllValues(U_model, lambda_1.val, lambda_2.val),
                           grads, variables, 1)
         m == WrapLeavesModel(U_model)
     IN /\ U_model' = [m EXCEPT !.w = [v \in DOMAIN m.w |-> new[v]]]
        /\ lambda_1' = [lambda_1 EXCEPT !.val = new[Lambda1Name]]
        /\ lambda_2' = [lambda_2 EXCEPT !.val = new[Lambda2Name]]
        /\ optimizer' = [iterations |-> optimizer.iterations + 1,
                         slots |-> optimizer.slots \cup OptimizerKeys(variables)]
        /\ trace' = IF trace = <<>> THEN trace
                    ELSE [trace EXCEPT ![Len(trace)] =
                            [@ EXCEPT !.after = [w |-> U_model'.w,
                                                 l1 |-> lambda_1'.val,
                                                 l2 |-> lambda_2'.val],
                                      !.updates = @ + 1,
                                      !.onto = variables]]
  /\ pc' = After("apply") /\ epoch' = EpochAfter("apply")
  /\ UNCHANGED <<error, q, IRK, dt, x_0, u_0, x_1, u_1, dummy_x_0, dummy_x_1,
                 epochs, log_epochs, loss_value, grads, logger, predictOut,
                 fitCount, snap, stage>>

\* if epoch % log_epochs == 0: get_params, logger.log_train_epoch
LogEpoch ==
  /\ pc = "log"
  /\ IF log_epochs = 0
     THEN /\ Raise("ZeroDivisionError")
          /\ UNCHANGED <<logger, epoch>>
     ELSE /\ logger' = IF ShouldLog(epoch, log_epochs)
                       THEN Append(logger,
                              [kind |-> "epoch", epoch |-> epoch, loss |-> loss_value,
                               l1 |-> GetParams(lambda_1.val, lambda_2.val)[1],
                               l2 |-> GetParams(lambda_1.val, lambda_2.val)[2]])
                       ELSE logger
          /\ pc' = After("log") /\ epoch' = EpochAfter("log")
          /\ UNCHANGED error
  /\ UNCHANGED <<q, IRK, dt, U_model, optimizer, x_0, u_0, x_1, u_1, lambda_1,
                 lambda_2, dummy_x_0, dummy_x_1, epochs, log_epochs, loss_value,
                 grads, predictOut, fitCount, trace, snap, stage>>

\* self.logger.log_train_end(epochs)
FitEnd ==
  /\ pc = "end"
  /\ logger' = Append(logger, [kind |-> "train_end", epoch |-> epochs, loss |-> 0,
                               l1 |-> 0, l2 |-> 0])
  /\ pc' = "Stopped"
  /\ UNCHANGED <<error, q, IRK, dt, U_model, optimizer, x_0, u_0, x_1, u_1,
                 lambda_1, lambda_2, dummy_x_0, dummy_x_1, epochs, log_epochs,
                 epoch, loss_value, grads, predictOut, fitCount, trace, snap,
                 stage>>

\* predict: U_0_model(x_star), then U_1_model(x_star), with the seeds fit left
Predict ==
  /\ pc \in {"Ready", "Stopped"}
  /\ \E M \in StarSizes :
       IF fitCount = 0
       THEN /\ Raise("AttributeError")
            /\ predictOut' = [NoPredict EXCEPT !.x_star = M, !.raised = TRUE]
       ELSE \E o0 \in U_0_modelShapes(U_model.layers, <<M, InputWidth>>,
                                      dummy_x_0, IRK.alpha),
               o1 \in U_1_modelShapes(U_model.layers, <<M, InputWidth>>,
                                      dummy_x_1, IRK.alpha, IRK.beta) :
              IF o0 = ShapeMismatch \/ o1 = ShapeMismatch
              THEN /\ Raise("ShapeMismatch")
                   /\ predictOut' = [x_star |-> M, U_0_star |-> o0,
                                     U_1_star |-> IF o0 = ShapeMismatch
                                                  THEN NoTensor ELSE o1,
                                     raised |-> TRUE]
              ELSE /\ predictOut' = [x_star |-> M, U_0_star |-> o0,
                                     U_1_star |-> o1, raised |-> FALSE]
                   /\ UNCHANGED <<pc, error>>
  /\ UNCHANGED <<q, IRK, dt, U_model, optimizer, x_0, u_0, x_1, u_1, lambda_1,
                 lambda_2, dummy_x_0, dummy_x_1, epochs, log_epochs, epoch,
                 loss_value, grads, logger, fitCount, trace, snap, stage>>

Next ==
  \/ FitStart
  \/ ForEpoch
  \/ Grad
  \/ ApplyGradients
  \/ LogEpoch
  \/ FitEnd
  \/ Predict

Spec == Init /\ [][Next]_vars

\* ------------------------------------- the stage predictors on their own
\* entries of U, U_x and U_xx; lambda_1; lambda_2 (exp 0, 1 and 2); tableaux
StageVals == {-1, 0, 2}
StageTensors == {<<<<a, b>>>> : a, b \in StageVals}
StageLambda1 == {0, 3}
StageLambda2 == {-(ExpFloor + 1), -ExpFloor, 1 - ExpFloor}
StageAlpha == <<<<1, 2>>, <<3, 5>>>>
StageBetas == {<<<<7, 4>>>>, <<<<7, 4>>, <<6, 9>>>>}
StageTimeSteps == {1, 2}

InitStage ==
  /\ InitTrain /\ q = 1 /\ U_model.w[<<"kernel", 1>>] = 0
  /\ \E U \in StageTensors, U_x \in StageTensors, U_xx \in StageTensors,
        l1 \in StageLambda1, l2 \in StageLambda2, beta \in StageBetas,
        h \in StageTimeSteps :
       stage = [pc |-> "in", U |-> U, U_x |-> U_x, U_xx |-> U_xx,
                lambda_1 |-> l1, lambda_2 |-> l2, dt |-> h,
                IRK_alpha |-> StageAlpha, IRK_beta |-> beta,
                out0 |-> <<>>, out1 |-> <<>>]
StageU0 ==
  /\ stage.pc = "in"
  /\ stage' = [stage EXCEPT !.pc = "half",
                 !.out0 = U_0_model(stage.U, stage.U_x, stage.U_xx, stage.lambda_1,
                                    stage.lambda_2, stage.dt, stage.IRK_alpha)]
  /\ UNCHANGED trainVars
StageU1 ==
  /\ stage.pc = "half"
  /\ stage' = [stage EXCEPT !.pc = "done",
                 !.out1 = U_1_model(stage.U, stage.U_x, stage.U_xx, stage.lambda_1,
                                    stage.lambda_2, stage.dt, stage.IRK_alpha,
                                    stage.IRK_beta)]
  /\ UNCHANGED trainVars
NextStage ==
  \/ StageU0
  \/ StageU1
SpecStage == InitStage /\ [][NextStage]_vars

\* the loop runs on one thread until it ends or raises
FairSpec ==
  Spec /\ WF_vars(ForEpoch \/ Grad \/ ApplyGradients \/ LogEpoch \/ FitEnd)

\* --------------------------------------------------------------- properties
InFit == {"for", "grad", "apply", "log", "end"}
Reports == SelectSeq(logger, LAMBDA r : r.kind = "epoch")
StandardVariables == TrainableVariables(U_model.layers) \o <<Lambda1Name, Lambda2Name>>

C1_Counts ==
  /\ Len(trace) <= epochs
  /\ \A i \in 1..Len(trace) :
       /\ trace[i].epoch = i - 1
       /\ trace[i].updates <= 1
       /\ i < Len(trace) => trace[i].updates = 1
  /\ pc = "apply" => Len(trace) = epoch + 1 /\ trace[Len(trace)].updates = 0
  /\ pc \in {"end", "Stopped"} =>
       /\ Len(trace) = epochs /\ epoch = epochs
       /\ \A i \in 1..Len(trace) : trace[i].updates = 1
  /\ pc = "Stopped" =>
       /\ Last(logger).kind = "train_end"
       /\ Last(logger).epoch = epochs
       /\ optimizer.iterations = snap.optimizer.iterations + epochs
\* C1: a fit with E epochs computes one gradient and then applies one update
\* in each of the epochs 0..E-1, in order, whatever the losses are, and a fit
\* that started ends Stopped (train-end logged) unless it raises.
C1_FixedEpochCount ==
  /\ []C1_Counts
  /\ (pc = "for") ~> (pc \in {"Stopped", "Failed"})
C1_Witness ==
  /\ pc = "Stopped" /\ epochs >= 2 /\ Len(trace) = epochs
  /\ trace[1].loss # trace[2].loss

C2_State ==
  /\ U_model.vars = TrainableVariables(U_model.layers)
  /\ NoDuplicates(StandardVariables)
  /\ \A i \in 1..Len(trace) :
       /\ trace[i].wrt = StandardVariables
       /\ trace[i].updates = 1 => trace[i].onto = trace[i].wrt
  /\ pc = "apply" =>
       /\ Len(grads) = Len(WrapTrainingVariables(U_model))
       /\ \A i \in 1..Len(grads) : grads[i].var = WrapTrainingVariables(U_model)[i]
C2_Step ==
  (pc \in InFit /\ (U_model.w' # U_model.w \/ lambda_1' # lambda_1 \/ lambda_2' # lambda_2))
    => /\ pc = "apply"
       /\ trace'[Len(trace')].updates = 1
       /\ optimizer'.iterations = optimizer.iterations + 1
\* C2: the gradient and the update of an epoch use the same ordered list, the
\* weights then lambda_1 and lambda_2, each once; the list does not grow over
\* the calls that build it; inside fit's loop only the update writes them.
C2_OneOrderedCollection == []C2_State /\ [][C2_Step]_vars
C2_Witness ==
  /\ pc = "apply" /\ epoch = 1 /\ Len(trace) = 2
  /\ trace[1].after.w # trace[1].before.w

\* C3: a stage predictor invoked with a batch whose row count differs from
\* its seed's raises ShapeMismatch and returns nothing.
C3_SeedMismatchRaises ==
  (fitCount >= 1 /\ predictOut.x_star >= 1) =>
    /\ predictOut.x_star # dummy_x_0[1] =>
         predictOut.raised /\ predictOut.U_0_star = ShapeMismatch
    /\ (predictOut.x_star = dummy_x_0[1] /\ predictOut.x_star # dummy_x_1[1]) =>
         predictOut.raised /\ predictOut.U_1_star = ShapeMismatch

\* C4: after fit, predict(x_star) returns both stage predictions for an
\* x_star of any number of points.
C4_PredictAnyPoints ==
  (fitCount >= 1 /\ predictOut.x_star >= 1) =>
    /\ ~predictOut.raised
    /\ predictOut.U_0_star = <<predictOut.x_star, q>>
    /\ predictOut.U_1_star = <<predictOut.x_star, q>>

\* C5: an epoch whose loss is non-finite gets no optimizer update and is the
\* last one: the driver has halted.
C5_HaltsOnNonFinite ==
  \A i \in 1..Len(trace) :
    trace[i].loss = NaN => trace[i].updates = 0 /\ i = Len(trace)

\* one training step on parameters P: every variable moves against the sign
\* of its own gradient
TrainStep(P) ==
  LET m == [layers |-> U_model.layers, vars |-> <<>>, w |-> P.w]
      g == Gradient(<<<<"kernel", 1>>, Lambda1Name, Lambda2Name>>, m,
                    P.l1, P.l2, u_0, u_1, dt)
  IN [w |-> [v \in DOMAIN P.w |-> AdamStep(P.w[v], g[1].g)],
      l1 |-> AdamStep(P.l1, g[2].g), l2 |-> AdamStep(P.l2, g[3].g)]
\* the parameters a fit starts from
StartParams == [w |-> snap.w, l1 |-> Lambda1Init, l2 |-> Lambda2Init]
LossAt(P) ==
  LossValue([layers |-> U_model.layers, vars |-> <<>>, w |-> P.w], P.l1, P.l2, u_0, u_1, dt)
C6_State ==
  /\ (log_epochs >= 1 /\ fitCount >= 1) =>
       /\ Len(Reports) = IF epoch = 0 THEN 0 ELSE (epoch - 1) \div log_epochs + 1
       /\ \A i \in 1..Len(Reports) : Reports[i].epoch = (i - 1) * log_epochs
  /\ log_epochs = 0 => Reports = <<>>
  /\ \A i \in 1..Len(trace) :
       trace[i].before = IF i = 1 THEN StartParams ELSE trace[i - 1].after
  /\ (trace # <<>> /\ pc \in {"apply", "log"}) =>
       LET t == trace[Len(trace)]
       IN /\ t.loss = LossAt(t.before)
          /\ t.updates = 1 => t.after = TrainStep(t.before)
          /\ Params = t.after
C6_Step ==
  /\ pc = "log" =>
       UNCHANGED <<U_model, lambda_1, lambda_2, optimizer, loss_value, grads, trace>>
  /\ pc \in InFit =>
       \A i \in 1..Len(trace) :
         /\ Len(trace') >= i
         /\ (i < Len(trace) \/ pc # "apply") => trace'[i] = trace[i]
\* C6: reports are made exactly in the epochs 0, K, 2K, ...; the weights,
\* lambdas and losses of a run are the iterates of the training step from the
\* parameters fit started with, which K does not enter; the reporting step
\* writes nothing.
C6_ReportingObservational == []C6_State /\ [][C6_Step]_vars
C6_Witness ==
  /\ pc = "Stopped" /\ log_epochs = 2 /\ epochs = 2 /\ Len(Reports) = 1
  /\ trace[2].after # trace[1].after

C9_LossBeforeParamsAfter ==
  \A i \in 1..Len(Reports) :
    LET r == Reports[i]
        t == trace[r.epoch + 1]
    IN /\ r.epoch + 1 <= Len(trace)
       /\ t.updates = 1
       /\ r.loss = t.loss
       /\ (i = Len(Reports) /\ r.epoch + 1 = Len(trace)) => r.loss = LossAt(t.before)
       /\ <<r.l1, r.l2>> = GetParams(t.after.l1, t.after.l2)
C9_Witness ==
  \E i \in 1..Len(Reports) :
    LET t == trace[Reports[i].epoch + 1]
    IN /\ Reports[i].loss # NaN
       /\ LossAt(t.after) # Reports[i].loss
       /\ GetParams(t.before.l1, t.before.l2) # <<Reports[i].l1, Reports[i].l2>>

C10_Step ==
  (pc \in {"Ready", "Stopped"} /\ pc' = "for") =>
    /\ lambda_1'.val = Lambda1Init /\ lambda_2'.val = Lambda2Init
    /\ lambda_1'.id # lambda_1.id /\ lambda_2'.id # lambda_2.id
    /\ lambda_1'.id \notin {snap.lambda_1.id, snap.lambda_2.id, lambda_2'.id}
    /\ dummy_x_0' = <<x_0'[1], q>> /\ dummy_x_1' = <<x_1'[1], q>>
    /\ U_model' = U_model /\ optimizer' = optimizer
\* C10: every fit call replaces lambda_1 and lambda_2 by new variables holding
\* 0.0 and -6.0 and rebuilds the seeds from its arguments, and leaves the
\* weights and the optimizer as they were.
C10_FitKeepsWeights == [][C10_Step]_vars
C10_Witness ==
  /\ fitCount = 2 /\ pc = "for" /\ epoch = 0
  /\ lambda_1.val = Lambda1Init /\ snap.lambda_1.val # Lambda1Init
  /\ snap.lambda_2.val # Lambda2Init
  /\ optimizer.iterations > 0
  /\ \A seed \in InitSeeds : U_model.w # InitialWeights(U_model.layers, seed)

\* C7: entry by entry, slice 0 returns U + dt * sum_k N[i][k] * alpha[j][k]
\* with N = lambda_1*U*U_x - nu*U_xx, slice 1 is built on the exact negation
\* of that N with beta - alpha in place of alpha, and with lambda_1 = 0 and
\* nu = 0 both return U.
C7_StagePredictors ==
  stage.pc = "done" =>
    LET U == stage.U
        nu == Exp(stage.lambda_2)
        Q == 1..Len(U[1])
        N0 == ResidualN0(U, stage.U_x, stage.U_xx, stage.lambda_1, nu)
        N1 == ResidualN1(U, stage.U_x, stage.U_xx, stage.lambda_1, nu)
        a == stage.IRK_alpha
        b == stage.IRK_beta
        ba(j, k) == b[IF Len(b) = 1 THEN 1 ELSE j][k] - a[j][k]
    IN /\ DOMAIN stage.out0 = DOMAIN U /\ DOMAIN stage.out1 = DOMAIN U
       /\ \A i \in DOMAIN U, j \in Q :
            /\ N0[i][j] = stage.lambda_1 * U[i][j] * stage.U_x[i][j]
                            - nu * stage.U_xx[i][j]
            /\ N1[i][j] = -N0[i][j]
            /\ stage.out0[i][j] =
                 U[i][j] + stage.dt * SeqSum([k \in Q |-> N0[i][k] * a[j][k]])
            /\ stage.out1[i][j] =
                 U[i][j] - stage.dt * SeqSum([k \in Q |-> N0[i][k] * ba(j, k)])
       /\ (stage.lambda_1 = 0 /\ nu = 0) => stage.out0 = U /\ stage.out1 = U
C7_Witness ==
  /\ stage.pc = "done"
  /\ stage.lambda_1 # 0 /\ Exp(stage.lambda_2) = 2 /\ Len(stage.IRK_beta) = 1
  /\ stage.out0 # stage.U /\ stage.out1 # stage.U /\ stage.out0 # stage.out1

====
